---- MODULE Spec2Model ----
(***************************************************************************)
(* Model of jetstream/testing.py: the Test object that flattens a set of   *)
(* templates with their dependencies, publishes them, creates a            *)
(* CloudFormation stack, polls it until it passes or fails, and cleans up. *)
(*                                                                         *)
(* SpecFlatten is the construction of a Test (_flatten_templates and the   *)
(* recursion of _recurse_dependencies, one step per statement).            *)
(* Spec is the life of a constructed Test: run (with _parent_template,     *)
(* _build_stack, _wait_results, _log_failed_stacks) and cleanup.           *)
(* SpecWait is _wait_results (with _log_failed_stacks) called by itself,   *)
(* where the poll loop is followed further than at the end of a run.       *)
(* SpecPair is the life of two Tests constructed in one process, used one  *)
(* after the other against the same remote services.                       *)
(* SpecFlattenFair is the flattening with the interpreter always taking    *)
(* the next statement, for what is claimed about its termination.          *)
(***************************************************************************)
EXTENDS Integers, Sequences, FiniteSets, TLC

VARIABLES
    \* --- the templates handed to Test(templates), and the flattening ---
    tname,          \* template object -> its name (templ.name)
    deps,           \* template object -> test_params.dependencies(), a list
    hookAdds,       \* template object -> what its prepare_test appends
    roots,          \* the argument of _flatten_templates
    frames,         \* call stack of _recurse_dependencies
    fpc,            \* "running" | "done" | "overflow"
    flattened,      \* the dict returned by the outermost call
    events,         \* history: calls made on the templates, in order
    \* --- a constructed Test, the remote services, and a call in progress ---
    self,           \* templates, _bucket, _stack_name, _bucket_url
    s3,             \* bucket name -> [exists, objs: key -> body]
    stacks,         \* CloudFormation: the create_stack requests accepted
    pc,             \* "idle", or the statement the running method is at
    idx,            \* run: index of the for loop over self.templates
    bucket_objects, \* cleanup: the local list of {'Key': ...}
    stack_failure,  \* _wait_results: the local flag
    stack_status,   \* _wait_results: the status of the last poll
    result,         \* what the last call returned: "none", "true", "false"
    raised,         \* the call whose error ended the last call, or "none"
    ncalls,         \* calls of run and cleanup made so far
    calls,          \* history: collaborator calls, log records and sleeps
                    \* of the call in progress (or of the last call), in order
    \* --- a second Test of the same process ---
    pair            \* other: the Test not in use; self_at, other_at: the
                    \* clock readings at the two constructions; swapped_at:
                    \* number of the first call made after the caller turned
                    \* to the second Test (0 before)

fvars == <<tname, deps, hookAdds, roots, frames, fpc, flattened, events>>

rvars == <<self, s3, stacks, pc, idx, bucket_objects, stack_failure, stack_status, result,
           raised, ncalls, calls>>

vars == <<fvars, rvars, pair>>

(***************************************************************************)
(* Bounds of the flattening model.                                         *)
(***************************************************************************)
MaxEdges == 2       \* dependency edges declared before any hook runs
MaxDepth == 4       \* frames of _recurse_dependencies before the recursion
                    \* is cut off (stands for the interpreter's limit)

Objs == {1, 2, 3}               \* template instances
Names == {"a", "b", "c"}        \* template names
None == 0                       \* dict.get(...) of a missing key

\* Name assignments up to renaming (the code only compares names).
NameChoices ==
    { <<"a", "b", "c">>, <<"a", "a", "b">>, <<"a", "b", "a">>,
      <<"a", "b", "b">>, <<"a", "a", "a">> }

\* Lists without repetition, of length at most 2.
DepLists ==
    {<<>>} \cup { <<x>> : x \in Objs }
           \cup { <<p[1], p[2]>> : p \in { q \in Objs \X Objs : q[1] # q[2] } }

RootLists == { <<x>> : x \in Objs } \cup { <<p[1], p[2]>> : p \in Objs \X Objs }

RECURSIVE SumLen(_, _)
SumLen(f, S) ==
    IF S = {} THEN 0
    ELSE LET x == CHOOSE y \in S : TRUE IN Len(f[x]) + SumLen(f, S \ {x})

EmptyDict == [n \in Names |-> None]

(***************************************************************************)
(* Collaborator: Template.prepare_test, the testing hook.  It may append   *)
(* dependencies to the template's test_params, and does so on each call.   *)
(***************************************************************************)
prepare_test(d, o) == [d EXCEPT ![o] = d[o] \o hookAdds[o]]

\* line 174 with the result of the recursive call dropped
dict_update_dropped(a, b) == a

\* dict.update: entries of the argument overwrite those of the receiver.
dict_update(a, b) == [n \in Names |-> IF b[n] # None THEN b[n] ELSE a[n]]

\* dict.values()
dict_values(a) == { a[n] : n \in { m \in Names : a[m] # None } }

Top == frames[Len(frames)]
Cur == Top.list[Top.i]

NewFrame(list) == [list |-> list, i |-> 1, acc |-> EmptyDict, step |-> "prepare"]

SetTop(f) == [frames EXCEPT ![Len(frames)] = f]

Event(op, o, seen) == [op |-> op, obj |-> o, seen |-> seen, depth |-> Len(frames)]

\* line 169 left out: the hook is not called
PrepareTestSkipped ==
    /\ fpc = "running" /\ Top.i <= Len(Top.list) /\ Top.step = "prepare"
    /\ frames' = SetTop([Top EXCEPT !.step = "insert"])
    /\ UNCHANGED <<tname, deps, hookAdds, roots, fpc, flattened, events>>
    /\ UNCHANGED <<rvars, pair>>

\* line 169 moved under the test of line 171: the hook runs for a new
\* name only
PrepareTestOncePerName ==
    /\ fpc = "running" /\ Top.i <= Len(Top.list) /\ Top.step = "prepare"
    /\ IF Top.acc[tname[Cur]] = None
       THEN /\ deps' = prepare_test(deps, Cur)
            /\ events' = Append(events, Event("prepare_test", Cur, <<>>))
       ELSE UNCHANGED <<deps, events>>
    /\ frames' = SetTop([Top EXCEPT !.step = "insert"])
    /\ UNCHANGED <<tname, hookAdds, roots, fpc, flattened>>
    /\ UNCHANGED <<rvars, pair>>

\* line 169: templ.prepare_test()
PrepareTest ==
    /\ fpc = "running" /\ Top.i <= Len(Top.list) /\ Top.step = "prepare"
    /\ deps' = prepare_test(deps, Cur)
    /\ events' = Append(events, Event("prepare_test", Cur, <<>>))
    /\ frames' = SetTop([Top EXCEPT !.step = "insert"])
    /\ UNCHANGED <<tname, hookAdds, roots, fpc, flattened>>
    /\ UNCHANGED <<rvars, pair>>

\* lines 171-172: insert unless the name is already in this call's dict
Insert ==
    /\ fpc = "running" /\ Top.i <= Len(Top.list) /\ Top.step = "insert"
    /\ frames' = SetTop([Top EXCEPT
                           !.step = "deps",
                           !.acc = IF Top.acc[tname[Cur]] = None
                                   THEN [Top.acc EXCEPT ![tname[Cur]] = Cur]
                                   ELSE Top.acc])
    /\ UNCHANGED <<tname, deps, hookAdds, roots, fpc, flattened, events>>
    /\ UNCHANGED <<rvars, pair>>

\* lines 174-175 left out: the dependencies are read, not traversed
RecurseSkipped ==
    /\ fpc = "running" /\ Top.i <= Len(Top.list) /\ Top.step = "deps"
    /\ deps[Cur] # <<>>
    /\ events' = Append(events, Event("dependencies", Cur, deps[Cur]))
    /\ frames' = SetTop([Top EXCEPT !.i = @ + 1, !.step = "prepare"])
    /\ UNCHANGED <<tname, deps, hookAdds, roots, fpc, flattened>>
    /\ UNCHANGED <<rvars, pair>>

\* lines 173-175, dependencies() non-empty: the recursive call
Recurse ==
    /\ fpc = "running" /\ Top.i <= Len(Top.list) /\ Top.step = "deps"
    /\ deps[Cur] # <<>>
    /\ events' = Append(events, Event("dependencies", Cur, deps[Cur]))
    /\ IF Len(frames) < MaxDepth
       THEN /\ frames' = Append(frames, NewFrame(deps[Cur]))
            /\ fpc' = fpc
       ELSE /\ frames' = frames
            /\ fpc' = "overflow"
    /\ UNCHANGED <<tname, deps, hookAdds, roots, flattened>>
    /\ UNCHANGED <<rvars, pair>>

\* line 173, dependencies() empty: on to the next template of the list
NoDependencies ==
    /\ fpc = "running" /\ Top.i <= Len(Top.list) /\ Top.step = "deps"
    /\ deps[Cur] = <<>>
    /\ events' = Append(events, Event("dependencies", Cur, <<>>))
    /\ frames' = SetTop([Top EXCEPT !.i = @ + 1, !.step = "prepare"])
    /\ UNCHANGED <<tname, deps, hookAdds, roots, fpc, flattened>>
    /\ UNCHANGED <<rvars, pair>>

\* line 176 in a nested call, then line 174 in the caller: update(...)
ReturnToCaller ==
    /\ fpc = "running" /\ Top.i > Len(Top.list) /\ Len(frames) > 1
    /\ LET caller == frames[Len(frames) - 1]
           merged == [caller EXCEPT !.acc = dict_update(caller.acc, Top.acc),
                                    !.i = @ + 1, !.step = "prepare"]
       IN frames' = [SubSeq(frames, 1, Len(frames) - 1)
                        EXCEPT ![Len(frames) - 1] = merged]
    /\ UNCHANGED <<tname, deps, hookAdds, roots, fpc, flattened, events>>
    /\ UNCHANGED <<rvars, pair>>

\* line 176 in the outermost call, then line 162
FlattenDone ==
    /\ fpc = "running" /\ Top.i > Len(Top.list) /\ Len(frames) = 1
    /\ flattened' = Top.acc
    /\ fpc' = "done"
    /\ UNCHANGED <<tname, deps, hookAdds, roots, frames, events>>
    /\ UNCHANGED <<rvars, pair>>

(***************************************************************************)
(* Graph notions the flattening claims are stated with.                    *)
(***************************************************************************)
Range(s) == { s[k] : k \in 1..Len(s) }

\* Dependency edges a traversal can meet: declared ones and hook-added ones.
AllDeps(o) == Range(deps[o]) \cup Range(hookAdds[o])

RECURSIVE ReachFrom(_)
ReachFrom(S) ==
    LET T == S \cup UNION { AllDeps(o) : o \in S }
    IN IF T = S THEN S ELSE ReachFrom(T)

ReachableObjs == ReachFrom(Range(roots))

\* Edges between names, of the templates the roots lead to.
NameEdges ==
    UNION { { <<tname[o], tname[d]>> : d \in AllDeps(o) } : o \in ReachableObjs }

RECURSIVE NamesFrom(_)
NamesFrom(S) ==
    LET T == S \cup { e[2] : e \in { x \in NameEdges : x[1] \in S } }
    IN IF T = S THEN S ELSE NamesFrom(T)

AcyclicByName ==
    \A n \in Names :
        n \notin NamesFrom({ e[2] : e \in { x \in NameEdges : x[1] = n } })

NamesOf(S) == { tname[o] : o \in S }

\* The instance of name n met first in the depth-first traversal.
FirstEncountered(n) ==
    LET ks == { k \in 1..Len(events) :
                  events[k].op = "prepare_test" /\ tname[events[k].obj] = n }
    IN IF ks = {} THEN None
       ELSE events[CHOOSE k \in ks : \A j \in ks : k <= j].obj

IsSuffix(s, t) ==
    /\ Len(s) <= Len(t)
    /\ SubSeq(t, Len(t) - Len(s) + 1, Len(t)) = s

(***************************************************************************)
(* C5: for a dependency graph acyclic by name, the flattened result holds  *)
(* exactly the names reachable from the roots, each name once, every entry *)
(* filed under its own name (and the recursion stays within MaxDepth).     *)
(***************************************************************************)
C5_FlattenExactlyReachable ==
    /\ AcyclicByName => fpc # "overflow"
    /\ (fpc = "done" /\ AcyclicByName) =>
        /\ NamesOf(dict_values(flattened)) = NamesOf(ReachableObjs)
        /\ Cardinality(dict_values(flattened)) =
               Cardinality(NamesOf(dict_values(flattened)))
        /\ \A n \in Names : flattened[n] # None => tname[flattened[n]] = n

\* A finished flattening of an acyclic graph where all three templates are
\* reachable, one of them only through a nested dependency list.
C5_Witness ==
    /\ fpc = "done" /\ AcyclicByName
    /\ ReachableObjs = Objs
    /\ Cardinality(NamesOf(Objs)) = 3
    /\ Len(roots) = 1
    /\ \E k \in 1..Len(events) : events[k].depth = 3

(***************************************************************************)
(* C6: when several instances carry one name, the flattened result keeps   *)
(* the instance met first in depth-first order.                            *)
(***************************************************************************)
C6_FirstInstanceKept ==
    fpc = "done" =>
        \A n \in Names : flattened[n] # None => flattened[n] = FirstEncountered(n)

(***************************************************************************)
(* C7: on every visit prepare_test runs before dependencies() is read, so  *)
(* the list that is read ends with what the hook appended, and the         *)
(* appended templates end up in the flattened result.                      *)
(***************************************************************************)
C7_PrepareBeforeDependencies ==
    /\ \A k \in 1..Len(events) :
          events[k].op = "dependencies" =>
              /\ k > 1
              /\ events[k-1].op = "prepare_test"
              /\ events[k-1].obj = events[k].obj
              /\ events[k-1].depth = events[k].depth
              /\ IsSuffix(hookAdds[events[k].obj], events[k].seen)
    /\ (fpc = "running" /\ Top.i <= Len(Top.list) /\ Top.step # "prepare") =>
          /\ events # <<>>
          /\ events[Len(events)].op = "prepare_test"
          /\ events[Len(events)].obj = Cur
    /\ fpc = "done" =>
          \A k \in 1..Len(events) : \A d \in Range(hookAdds[events[k].obj]) :
              flattened[tname[d]] # None

\* A template met only as a dependency whose hook adds its only dependency,
\* a template nobody else refers to, which is in the result.
C7_Witness ==
    /\ fpc = "done"
    /\ \E o \in Objs, d \in Objs :
          /\ o \notin Range(roots) /\ d \notin Range(roots)
          /\ hookAdds[o] = <<d>>
          /\ \A x \in Objs : x # o => d \notin AllDeps(x)
          /\ \E k \in 1..Len(events) :
                /\ events[k].op = "dependencies" /\ events[k].obj = o
                /\ events[k].seen = <<d>>
          /\ flattened[tname[d]] = d


(***************************************************************************)
(* The constructed Test and the services it talks to.                      *)
(***************************************************************************)
MaxPolls == 3       \* polls in one _wait_results that is called by itself
MaxRunPolls == 1    \* polls in the _wait_results that ends a run
MaxCalls == 2       \* calls made on one Test

Timestamps == {1466000000, 1466000001}      \* int(time.time())

\* Flattened templates: templ.name, templ.resource_name() and
\* templ.test_params.dict() (a set of key/value pairs, {} when empty).
TemplA == [name |-> "a.template", rname |-> "A", params |-> {<<"Env", "test">>}]
TemplB == [name |-> "b.template", rname |-> "B", params |-> {}]
TemplM == [name |-> "master.template", rname |-> "Master", params |-> {}]
TemplatePool == {TemplA, TemplB, TemplM}

\* The values of a dict keyed by name: distinct templates, in some order.
TemplateLists ==
    {<<>>} \cup { <<x>> : x \in TemplatePool }
      \cup { <<p[1], p[2]>> :
               p \in { q \in TemplatePool \X TemplatePool : q[1] # q[2] } }
      \cup { <<p[1], p[2], p[3]>> :
               p \in { q \in TemplatePool \X TemplatePool \X TemplatePool :
                         q[1] # q[2] /\ q[1] # q[3] /\ q[2] # q[3] } }

Keys == { x.name : x \in TemplatePool }

\* S3 lists keys in their byte order.
KeyOrder == <<"a.template", "b.template", "master.template">>
KeyBefore(x, y) ==
    \E i, j \in 1..Len(KeyOrder) : i < j /\ KeyOrder[i] = x /\ KeyOrder[j] = y

\* str.format with one or two arguments: the literal pieces and the values.
BucketName(t) == <<"jetstream-test-", t>>
StackName(t) == <<"JetstreamTest", t>>
BucketUrl(bucket) == <<"https://s3.amazonaws.com/", bucket>>
Url(bucket_url, key) == <<bucket_url, "/", key>>

Buckets == { BucketName(t) : t \in Timestamps }

\* Stack statuses, as their words between underscores; "x in status" of the
\* code is a search for the words of x, in a row, in the status.
CREATE_IN_PROGRESS == <<"CREATE", "IN", "PROGRESS">>
CREATE_FAILED == <<"CREATE", "FAILED">>
CREATE_COMPLETE == <<"CREATE", "COMPLETE">>
ROLLBACK_IN_PROGRESS == <<"ROLLBACK", "IN", "PROGRESS">>
ROLLBACK_FAILED == <<"ROLLBACK", "FAILED">>
ROLLBACK_COMPLETE == <<"ROLLBACK", "COMPLETE">>
UPDATE_ROLLBACK_IN_PROGRESS == <<"UPDATE", "ROLLBACK", "IN", "PROGRESS">>
UPDATE_ROLLBACK_FAILED == <<"UPDATE", "ROLLBACK", "FAILED">>

Statuses ==
    { CREATE_IN_PROGRESS, CREATE_FAILED, CREATE_COMPLETE, ROLLBACK_IN_PROGRESS,
      ROLLBACK_FAILED, ROLLBACK_COMPLETE, UPDATE_ROLLBACK_IN_PROGRESS,
      UPDATE_ROLLBACK_FAILED }

COMPLETE == <<"COMPLETE">>
ROLLBACK == <<"ROLLBACK">>
FAILED == <<"FAILED">>

\* Python's "sub in text" on strings
In(sub, text) ==
    \E k \in 0..(Len(text) - Len(sub)) : SubSeq(text, k + 1, k + Len(sub)) = sub

\* describe_stack_events: the answers the model draws from.  An event has an
\* EventId, may have a ResourceStatus and may have a ResourceStatusReason.
EventLists ==
    { <<>>,
      << [EventId |-> "e1", ResourceStatus |-> CREATE_COMPLETE] >>,
      << [EventId |-> "e1", ResourceStatus |-> CREATE_FAILED,
          ResourceStatusReason |-> "denied"] >>,
      << [EventId |-> "e1", ResourceStatus |-> CREATE_FAILED,
          ResourceStatusReason |-> "denied"],
         [EventId |-> "e2", ResourceStatus |-> CREATE_FAILED] >> }

Call(by, op, arg, ok) == [by |-> by, op |-> op, arg |-> arg, ok |-> ok]

\* The statuses the poll loop has been given in this call, in order.
IsPoll(c) == c.by = "_wait_results" /\ c.op = "describe_stacks" /\ c.ok
Polled == SelectSeq(calls, IsPoll)

(***************************************************************************)
(* _parent_template (lines 117-132): the master manifest, a mapping from   *)
(* resource name to the Stack resource's properties.                       *)
(***************************************************************************)
\* lines 124-129 without the test of line 128: Parameters always set
stack_params_always(templ, bucket_url) ==
    [TemplateURL |-> Url(bucket_url, templ.name), Parameters |-> templ.params]

\* lines 124-129
stack_params(templ, bucket_url) ==
    IF templ.params # {}
    THEN [TemplateURL |-> Url(bucket_url, templ.name), Parameters |-> templ.params]
    ELSE [TemplateURL |-> Url(bucket_url, templ.name)]

\* line 130, master_templ.add_resource(Stack(stack_name, **stack_params))
add_resource(resources, title, props) ==
    [k \in DOMAIN resources \cup {title} |->
        IF k = title THEN props ELSE resources[k]]

RECURSIVE parent_template_from(_, _, _, _)
parent_template_from(templates, bucket_url, k, resources) ==
    IF k > Len(templates) THEN resources
    ELSE parent_template_from(templates, bucket_url, k + 1,
            add_resource(resources, templates[k].rname,
                         stack_params(templates[k], bucket_url)))

parent_template ==
    parent_template_from(self.templates, self.bucket_url, 1, <<>>)

\* templ.generate(testing=True)
generate(templ) == <<"body", templ.name, "testing">>

(***************************************************************************)
(* Effects on the services.                                                *)
(***************************************************************************)
\* A key of a bucket holds no object, or one object.
Absent == <<>>
Stored(body) == <<body>>
NoObjects == [k \in Keys |-> Absent]

\* S3Publisher(bucket).publish_file(key, body)
publish_file(store, bucket, key, body) ==
    [store EXCEPT ![bucket].objs[key] = Stored(body)]

\* How a call ends: by returning a value, or by an error that propagates.
Return(value) ==
    /\ pc' = "idle"
    /\ result' = value
    /\ raised' = "none"

\* the error caught and turned into a failed test
RaiseCaught(op) ==
    /\ pc' = "idle"
    /\ result' = "false"
    /\ raised' = "none"

\* an exception leaves the method: nothing is returned
Raise(op) ==
    /\ pc' = "idle"
    /\ result' = "none"
    /\ raised' = op

Bool(b) == IF b THEN "true" ELSE "false"

(***************************************************************************)
(* run (lines 46-62)                                                       *)
(***************************************************************************)
\* the names taken from the clock again when run starts
RunCreateBucketRestamped ==
    /\ pc = "idle" /\ ncalls < MaxCalls
    /\ ncalls' = ncalls + 1
    /\ idx' = 1
    /\ stack_failure' = FALSE
    /\ stack_status' = <<>>
    /\ \E timestamp \in Timestamps :
          self' = [self EXCEPT !.bucket = BucketName(timestamp),
                               !.stack_name = StackName(timestamp),
                               !.bucket_url = BucketUrl(BucketName(timestamp))]
    /\ \E ok \in BOOLEAN :
          /\ calls' = << Call("run", "create_bucket", self'.bucket, ok) >>
          /\ IF ok
             THEN /\ s3' = [s3 EXCEPT ![self'.bucket].exists = TRUE]
                  /\ pc' = "publish_master"
                  /\ result' = "none"
                  /\ raised' = "none"
             ELSE /\ s3' = s3
                  /\ Raise("create_bucket")
    /\ UNCHANGED <<bucket_objects, stacks>>
    /\ UNCHANGED <<fvars, pair>>

\* line 49: the caller calls run; boto3.client('s3').create_bucket
RunCreateBucket ==
    /\ pc = "idle" /\ ncalls < MaxCalls
    /\ ncalls' = ncalls + 1
    /\ idx' = 1                    \* the locals of an earlier call are gone
    /\ stack_failure' = FALSE      \* line 83
    /\ stack_status' = <<>>
    /\ \E ok \in BOOLEAN :
          /\ calls' = << Call("run", "create_bucket", self.bucket, ok) >>
          /\ IF ok
             THEN /\ s3' = [s3 EXCEPT ![self.bucket].exists = TRUE]
                  /\ pc' = "publish_master"
                  /\ result' = "none"
                  /\ raised' = "none"
             ELSE /\ s3' = s3
                  /\ Raise("create_bucket")
    /\ UNCHANGED <<self, bucket_objects, stacks>>
    /\ UNCHANGED <<fvars, pair>>

\* line 55 off by one: the loop stops one template short
LoopStopsShort(k, n) == k < n

\* line 55: for templ in self.templates
LoopGoesOn(k, n) == k <= n

\* lines 53-54: publish_file('master.template', self._parent_template())
PublishMaster ==
    /\ pc = "publish_master"
    /\ \E ok \in BOOLEAN :
          /\ calls' = Append(calls, Call("run", "publish_file",
                          [key |-> "master.template", body |-> parent_template], ok))
          /\ IF ok
             THEN /\ s3' = publish_file(s3, self.bucket, "master.template",
                                        parent_template)
                  /\ pc' = IF LoopGoesOn(idx, Len(self.templates))
                           THEN "publish" ELSE "create_stack"
                  /\ UNCHANGED <<result, raised>>
             ELSE /\ s3' = s3
                  /\ Raise("publish_file")
    /\ UNCHANGED <<self, bucket_objects, stacks, idx, stack_failure,
                   stack_status, ncalls>>
    /\ UNCHANGED <<fvars, pair>>

\* lines 55-58: publish_file(templ.name, templ.generate(testing=True))
PublishTemplate ==
    /\ pc = "publish"
    /\ LET templ == self.templates[idx] IN
       \E ok \in BOOLEAN :
          /\ calls' = Append(calls, Call("run", "publish_file",
                          [key |-> templ.name, body |-> generate(templ)], ok))
          /\ IF ok
             THEN /\ s3' = publish_file(s3, self.bucket, templ.name, generate(templ))
                  /\ idx' = idx + 1
                  /\ pc' = IF LoopGoesOn(idx + 1, Len(self.templates))
                           THEN "publish" ELSE "create_stack"
                  /\ UNCHANGED <<result, raised>>
             ELSE /\ s3' = s3
                  /\ idx' = idx
                  /\ Raise("publish_file")
    /\ UNCHANGED <<self, bucket_objects, stacks, stack_failure, stack_status,
                   ncalls>>
    /\ UNCHANGED <<fvars, pair>>

\* lines 61 and 109-115: _build_stack, create_stack
BuildStack ==
    /\ pc = "create_stack"
    /\ LET req == [StackName |-> self.stack_name,
                   TemplateURL |-> Url(self.bucket_url, "master.template"),
                   Capabilities |-> {"CAPABILITY_IAM"}] IN
       \E ok \in BOOLEAN :
          /\ calls' = Append(calls, Call("_build_stack", "create_stack", req, ok))
          /\ IF ok
             THEN /\ stacks' = stacks \cup {req}
                  /\ pc' = "poll"
                  /\ UNCHANGED <<result, raised>>
             ELSE /\ stacks' = stacks
                  /\ Raise("create_stack")
    /\ UNCHANGED <<self, bucket_objects, s3, idx, stack_failure,
                   stack_status, ncalls>>
    /\ UNCHANGED <<fvars, pair>>


(***************************************************************************)
(* _wait_results (lines 81-107) and _log_failed_stacks (lines 134-157)     *)
(***************************************************************************)
\* line 90 gone wrong: equality instead of containment
IsCompleteExact(status) == status = CREATE_COMPLETE

\* line 90
IsComplete(status) == In(COMPLETE, status)

\* line 93 gone wrong: the flag is not consulted; FAILED counts as rollback
ShouldReportAgain(status, failure) == In(ROLLBACK, status)

ShouldReportOnFailed(status, failure) ==
    (In(ROLLBACK, status) \/ In(FAILED, status)) /\ ~failure

\* line 93
ShouldReport(status, failure) == In(ROLLBACK, status) /\ ~failure

\* line 100 gone wrong: equality instead of containment
RollbackFailedExact(status) == status = ROLLBACK_FAILED

\* line 100
RollbackFailed(status) == In(ROLLBACK_FAILED, status)

\* line 107
ReturnValue(failure) == Bool(~failure)

\* lines 99-106, reached with the trace `log` so far: break on a failed
\* rollback, sleep otherwise
LoopTail(log, status, failure) ==
    IF RollbackFailed(status)
    THEN /\ calls' = Append(log, Call("_wait_results", "LOG.error",
                                      "rollback failed, fix manually", TRUE))
         /\ Return(ReturnValue(failure))
    ELSE /\ calls' = log
         /\ pc' = "sleep"
         /\ UNCHANGED <<result, raised>>

\* line 62 without the run before it: the caller calls _wait_results
CallWaitResults ==
    /\ pc = "idle" /\ ncalls < MaxCalls
    /\ ncalls' = ncalls + 1
    /\ idx' = 1                    \* the locals of an earlier call are gone
    /\ stack_failure' = FALSE      \* line 83
    /\ stack_status' = <<>>
    /\ calls' = <<>>
    /\ pc' = "poll"
    /\ result' = "none"
    /\ raised' = "none"
    /\ UNCHANGED <<self, bucket_objects, s3, stacks>>
    /\ UNCHANGED <<fvars, pair>>

\* How far the model follows the loop: a run is followed through its first
\* polls, the loop called by itself through MaxPolls of them.
InRun == calls # <<>> /\ calls[1].by = "run"
PollBound == IF InRun THEN MaxRunPolls ELSE MaxPolls

\* lines 85-97: one poll of the stack status, up to the next call it makes
Poll ==
    /\ pc = "poll" /\ Len(Polled) < PollBound
    /\ \E ok \in BOOLEAN, status \in Statuses :
          IF ~ok
          THEN /\ calls' = Append(calls, Call("_wait_results", "describe_stacks",
                                              self.stack_name, FALSE))
               /\ Raise("describe_stacks")
               /\ UNCHANGED <<stack_failure, stack_status>>
          ELSE LET log == Append(calls, Call("_wait_results", "describe_stacks",
                                             status, TRUE)) IN
               /\ stack_status' = status
               /\ IF IsComplete(status)
                  THEN /\ calls' = log
                       /\ Return(ReturnValue(stack_failure))
                       /\ UNCHANGED stack_failure
                  ELSE IF ShouldReport(status, stack_failure)
                  THEN /\ stack_failure' = TRUE
                       /\ calls' = Append(log, Call("_wait_results",
                                    "_log_failed_stacks", self.stack_name, TRUE))
                       /\ pc' = "report_describe"
                       /\ UNCHANGED <<result, raised>>
                  ELSE /\ LoopTail(log, status, stack_failure)
                       /\ UNCHANGED stack_failure
    /\ UNCHANGED <<self, bucket_objects, s3, stacks, idx, ncalls>>
    /\ UNCHANGED <<fvars, pair>>

\* lines 144-147 logging the status the poll loop saw
ReportDescribeLogsPolled ==
    /\ pc = "report_describe"
    /\ \E ok \in BOOLEAN, status \in Statuses, hasReason \in BOOLEAN :
          IF ~ok
          THEN /\ calls' = Append(calls, Call("_log_failed_stacks",
                                    "describe_stacks", self.stack_name, FALSE))
               /\ Raise("describe_stacks")
          ELSE /\ calls' = calls \o
                    << Call("_log_failed_stacks", "describe_stacks", status, TRUE),
                       Call("_log_failed_stacks", "LOG.error",
                            [StackName |-> self.stack_name,
                             StackStatus |-> stack_status,
                             reason |-> IF hasReason THEN "StackStatusReason"
                                        ELSE "No reason found"], TRUE) >>
               /\ pc' = "report_events"
               /\ UNCHANGED <<result, raised>>
    /\ UNCHANGED <<self, bucket_objects, s3, stacks, idx, stack_failure,
                   stack_status, ncalls>>
    /\ UNCHANGED <<fvars, pair>>

\* lines 136-148: the report fetches the stack again and logs its status
ReportDescribe ==
    /\ pc = "report_describe"
    /\ \E ok \in BOOLEAN, status \in Statuses, hasReason \in BOOLEAN :
          IF ~ok
          THEN /\ calls' = Append(calls, Call("_log_failed_stacks",
                                    "describe_stacks", self.stack_name, FALSE))
               /\ Raise("describe_stacks")
          ELSE /\ calls' = calls \o
                    << Call("_log_failed_stacks", "describe_stacks", status, TRUE),
                       Call("_log_failed_stacks", "LOG.error",
                            [StackName |-> self.stack_name,
                             StackStatus |-> status,
                             reason |-> IF hasReason THEN "StackStatusReason"
                                        ELSE "No reason found"], TRUE) >>
               /\ pc' = "report_events"
               /\ UNCHANGED <<result, raised>>
    /\ UNCHANGED <<self, bucket_objects, s3, stacks, idx, stack_failure,
                   stack_status, ncalls>>
    /\ UNCHANGED <<fvars, pair>>

\* line 154
IsFailedEvent(e) == "ResourceStatus" \in DOMAIN e /\ In(FAILED, e.ResourceStatus)

\* lines 153-157: the index of the first FAILED event whose
\* e['ResourceStatusReason'] is a KeyError, or 0
FirstKeyError(evs) ==
    LET bad == { k \in 1..Len(evs) :
                   IsFailedEvent(evs[k]) /\ "ResourceStatusReason" \notin DOMAIN evs[k] }
    IN IF bad = {} THEN 0 ELSE CHOOSE k \in bad : \A j \in bad : k <= j

\* lines 153-157: the records logged for the events before index `stop`
RECURSIVE EventErrors(_, _, _)
EventErrors(evs, k, stop) ==
    IF k >= stop \/ k > Len(evs) THEN <<>>
    ELSE (IF IsFailedEvent(evs[k])
          THEN << Call("_log_failed_stacks", "LOG.error",
                       [EventId |-> evs[k].EventId,
                        reason |-> evs[k].ResourceStatusReason], TRUE) >>
          ELSE <<>>) \o EventErrors(evs, k + 1, stop)

\* lines 150-157, then lines 99-106 of _wait_results
ReportEvents ==
    /\ pc = "report_events"
    /\ \E ok \in BOOLEAN, evs \in EventLists :
          IF ~ok
          THEN /\ calls' = Append(calls, Call("_log_failed_stacks",
                                    "describe_stack_events", self.stack_name, FALSE))
               /\ Raise("describe_stack_events")
          ELSE LET fetched == Append(calls, Call("_log_failed_stacks",
                                    "describe_stack_events", Len(evs), TRUE))
                   bad == FirstKeyError(evs)
               IN IF bad # 0
                  THEN /\ calls' = fetched \o EventErrors(evs, 1, bad)
                       /\ Raise("KeyError")
                  ELSE LoopTail(fetched \o EventErrors(evs, 1, Len(evs) + 1),
                            stack_status, stack_failure)
    /\ UNCHANGED <<self, bucket_objects, s3, stacks, idx, stack_failure,
                   stack_status, ncalls>>
    /\ UNCHANGED <<fvars, pair>>

\* line 106: time.sleep(10)
Sleep ==
    /\ pc = "sleep"
    /\ calls' = Append(calls, Call("_wait_results", "time.sleep", 10, TRUE))
    /\ pc' = "poll"
    /\ UNCHANGED <<self, bucket_objects, s3, stacks, idx, stack_failure,
                   stack_status, result,
                   raised, ncalls>>
    /\ UNCHANGED <<fvars, pair>>

(***************************************************************************)
(* cleanup (lines 64-79)                                                   *)
(***************************************************************************)
\* lines 70-72 stopping after the first item of the listing
KeyListFirstOnly(objs, ks) ==
    LET held == { k \in ks : objs[k] # Absent }
    IN IF held = {} THEN <<>>
       ELSE << CHOOSE x \in held : \A y \in held : x = y \/ KeyBefore(x, y) >>

\* list_objects: the keys of the bucket, in the order of the listing
RECURSIVE KeyList(_, _)
KeyList(objs, ks) ==
    IF ks = {} THEN <<>>
    ELSE LET k == CHOOSE x \in ks : \A y \in ks : x = y \/ KeyBefore(x, y)
         IN IF objs[k] # Absent
            THEN <<k>> \o KeyList(objs, ks \ {k})
            ELSE KeyList(objs, ks \ {k})

\* lines 66-72: the caller calls cleanup; list_objects and the Key list
CleanupList ==
    /\ pc = "idle" /\ ncalls < MaxCalls
    /\ ncalls' = ncalls + 1
    /\ \E ok \in BOOLEAN :
          /\ calls' = << Call("cleanup", "list_objects", self.bucket,
                              ok /\ s3[self.bucket].exists) >>
          /\ IF ok /\ s3[self.bucket].exists
             THEN /\ bucket_objects' = KeyList(s3[self.bucket].objs, Keys)
                  /\ pc' = "delete_objects"
                  /\ result' = "none"
                  /\ raised' = "none"
             ELSE /\ bucket_objects' = <<>>
                  /\ Raise("list_objects")
    /\ idx' = 1
    /\ stack_failure' = FALSE
    /\ stack_status' = <<>>
    /\ UNCHANGED <<self, s3, stacks>>
    /\ UNCHANGED <<fvars, pair>>

\* lines 74-75: delete_objects(Bucket, Delete={'Objects': bucket_objects})
CleanupDeleteObjects ==
    /\ pc = "delete_objects"
    /\ \E ok \in BOOLEAN :
          /\ calls' = Append(calls, Call("cleanup", "delete_objects",
                          [Bucket |-> self.bucket, Objects |-> bucket_objects], ok))
          /\ IF ok
             THEN /\ s3' = [s3 EXCEPT ![self.bucket].objs =
                              [k \in Keys |-> IF k \in Range(bucket_objects)
                                              THEN Absent ELSE @[k]]]
                  /\ pc' = "delete_bucket"
                  /\ UNCHANGED <<result, raised>>
             ELSE /\ s3' = s3
                  /\ Raise("delete_objects")
    /\ UNCHANGED <<self, bucket_objects, stacks, idx, stack_failure,
                   stack_status,
                   ncalls>>
    /\ UNCHANGED <<fvars, pair>>

\* line 76 made best-effort: a failed delete_bucket is passed over
CleanupDeleteBucketBestEffort ==
    /\ pc = "delete_bucket"
    /\ \E ok \in BOOLEAN :
          /\ calls' = Append(calls, Call("cleanup", "delete_bucket", self.bucket, ok))
          /\ s3' = IF ok
                   THEN [s3 EXCEPT ![self.bucket] =
                           [exists |-> FALSE, objs |-> NoObjects]]
                   ELSE s3
          /\ pc' = "delete_stack"
    /\ UNCHANGED <<self, bucket_objects, stacks, idx, stack_failure,
                   stack_status, result, raised, ncalls>>
    /\ UNCHANGED <<fvars, pair>>

\* line 76: delete_bucket
CleanupDeleteBucket ==
    /\ pc = "delete_bucket"
    /\ \E ok \in BOOLEAN :
          /\ calls' = Append(calls, Call("cleanup", "delete_bucket", self.bucket, ok))
          /\ IF ok
             THEN /\ s3' = [s3 EXCEPT ![self.bucket] =
                              [exists |-> FALSE, objs |-> NoObjects]]
                  /\ pc' = "delete_stack"
                  /\ UNCHANGED <<result, raised>>
             ELSE /\ s3' = s3
                  /\ Raise("delete_bucket")
    /\ UNCHANGED <<self, bucket_objects, stacks, idx, stack_failure,
                   stack_status,
                   ncalls>>
    /\ UNCHANGED <<fvars, pair>>

\* lines 78-79: delete_stack, and cleanup returns None
CleanupDeleteStack ==
    /\ pc = "delete_stack"
    /\ \E ok \in BOOLEAN :
          /\ calls' = Append(calls, Call("cleanup", "delete_stack",
                                         self.stack_name, ok))
          /\ IF ok
             THEN /\ stacks' = { st \in stacks : st.StackName # self.stack_name }
                  /\ Return("none")
             ELSE /\ stacks' = stacks
                  /\ Raise("delete_stack")
    /\ UNCHANGED <<self, bucket_objects, s3, idx, stack_failure, stack_status,
                   ncalls>>
    /\ UNCHANGED <<fvars, pair>>

(***************************************************************************)
(* The specifications: SpecFlatten, the construction of a Test; Spec, the  *)
(* calls of run and cleanup on a constructed Test; SpecWait, the calls of  *)
(* _wait_results on a constructed Test whose stack exists.                 *)
(***************************************************************************)
\* A process that constructs one Test only.
NoTest == [templates |-> <<>>, bucket |-> <<>>, stack_name |-> <<>>,
           bucket_url |-> <<>>]
OneTest == pair = [other |-> NoTest, self_at |-> <<>>, other_at |-> <<>>,
                   swapped_at |-> 0]

\* Before Test(...) returns there is no Test to call.
NotConstructed ==
    /\ OneTest
    /\ self = [templates |-> <<>>, bucket |-> <<>>, stack_name |-> <<>>,
               bucket_url |-> <<>>]
    /\ s3 = [b \in Buckets |-> [exists |-> FALSE, objs |-> NoObjects]]
    /\ stacks = {}
    /\ pc = "constructing"
    /\ idx = 1
    /\ bucket_objects = <<>>
    /\ stack_failure = FALSE
    /\ stack_status = <<>>
    /\ result = "none"
    /\ raised = "none"
    /\ ncalls = 0
    /\ calls = <<>>

\* The flattening has no part in the calls made on a constructed Test.
Constructed ==
    /\ tname = <<>> /\ deps = <<>> /\ hookAdds = <<>> /\ roots = <<>>
    /\ frames = <<>> /\ fpc = "done" /\ flattened = EmptyDict /\ events = <<>>

InitFlatten ==
    /\ tname \in NameChoices
    /\ deps \in { d \in [Objs -> DepLists] : SumLen(d, Objs) <= MaxEdges }
    /\ hookAdds \in { h \in [Objs -> {<<>>} \cup { <<x>> : x \in Objs }] :
                        SumLen(h, Objs) <= 1 }
    /\ roots \in RootLists
    /\ frames = << NewFrame(roots) >>
    /\ fpc = "running"
    /\ flattened = EmptyDict
    /\ events = <<>>
    /\ NotConstructed

NextFlatten ==
    \/ PrepareTest
    \/ Insert
    \/ Recurse
    \/ NoDependencies
    \/ ReturnToCaller
    \/ FlattenDone

SpecFlatten == InitFlatten /\ [][NextFlatten]_vars

\* The interpreter goes on executing as long as a statement is left.  The
\* template objects being interchangeable, the first root is taken to be
\* the first of them.
InitFlattenFair == InitFlatten /\ roots[1] = 1

SpecFlattenFair ==
    InitFlattenFair /\ [][NextFlatten]_vars /\ WF_vars(NextFlatten)


\* lines 37-44: the state Test(templates) leaves behind
Init ==
    /\ Constructed
    /\ OneTest
    /\ \E templates \in TemplateLists, timestamp \in Timestamps :
          self = [templates |-> templates,
                  bucket |-> BucketName(timestamp),
                  stack_name |-> StackName(timestamp),
                  bucket_url |-> BucketUrl(BucketName(timestamp))]
    /\ s3 = [b \in Buckets |-> [exists |-> FALSE, objs |-> NoObjects]]
    /\ stacks = {}
    /\ pc = "idle"
    /\ idx = 1
    /\ bucket_objects = <<>>
    /\ stack_failure = FALSE
    /\ stack_status = <<>>
    /\ result = "none"
    /\ raised = "none"
    /\ ncalls = 0
    /\ calls = <<>>

Next ==
    \/ RunCreateBucket
    \/ PublishMaster
    \/ PublishTemplate
    \/ BuildStack
    \/ Poll
    \/ ReportDescribe
    \/ ReportEvents
    \/ Sleep
    \/ CleanupList
    \/ CleanupDeleteObjects
    \/ CleanupDeleteBucket
    \/ CleanupDeleteStack

Spec == Init /\ [][Next]_vars

\* A Test whose run has created the bucket and the stack.
InitWait ==
    /\ Constructed
    /\ OneTest
    /\ LET timestamp == CHOOSE t \in Timestamps : TRUE
           bucket == BucketName(timestamp) IN
       /\ self = [templates |-> <<TemplA>>,
                  bucket |-> bucket,
                  stack_name |-> StackName(timestamp),
                  bucket_url |-> BucketUrl(bucket)]
       /\ s3 = [b \in Buckets |->
                  IF b # bucket
                  THEN [exists |-> FALSE, objs |-> NoObjects]
                  ELSE [exists |-> TRUE,
                        objs |-> [k \in Keys |->
                           IF k = "master.template"
                           THEN Stored(parent_template_from(<<TemplA>>,
                                           BucketUrl(bucket), 1, <<>>))
                           ELSE IF k = TemplA.name THEN Stored(generate(TemplA))
                           ELSE Absent]]]
       /\ stacks = {[StackName |-> StackName(timestamp),
                     TemplateURL |-> Url(BucketUrl(bucket), "master.template"),
                     Capabilities |-> {"CAPABILITY_IAM"}]}
    /\ pc = "idle"
    /\ idx = 1
    /\ bucket_objects = <<>>
    /\ stack_failure = FALSE
    /\ stack_status = <<>>
    /\ result = "none"
    /\ raised = "none"
    /\ ncalls = 0
    /\ calls = <<>>

NextWait ==
    \/ CallWaitResults
    \/ Poll
    \/ ReportDescribe
    \/ ReportEvents
    \/ Sleep

SpecWait == InitWait /\ [][NextWait]_vars


(***************************************************************************)
(* Notions the claims about run and _wait_results are stated with.  The    *)
(* history `calls` is that of the call in progress, or of the last call.   *)
(***************************************************************************)
PollIdx == { k \in 1..Len(calls) : IsPoll(calls[k]) }

\* Polls whose status flags a rollback: it contains ROLLBACK, not COMPLETE.
RollbackIdx ==
    { k \in PollIdx : In(ROLLBACK, calls[k].arg) /\ ~In(COMPLETE, calls[k].arg) }

\* Invocations of _log_failed_stacks (line 97).
ReportIdx == { k \in 1..Len(calls) : calls[k].op = "_log_failed_stacks" }

\* Anything the failure report does, and anything logged at error severity.
IsReportOrError(c) ==
    c.by = "_log_failed_stacks" \/ c.op = "_log_failed_stacks" \/ c.op = "LOG.error"

\* What the poll loop itself does after a poll: another fetch, or a sleep.
IsLoopStep(c) ==
    c.by = "_wait_results" /\ c.op \in {"describe_stacks", "time.sleep"}

MinOf(S) == CHOOSE k \in S : \A j \in S : k <= j

Ended == pc = "idle" /\ ncalls > 0
Returned == Ended /\ raised = "none"

\* The call was ended by an error raised inside _log_failed_stacks.
RaisedInReport ==
    /\ Ended /\ raised # "none"
    /\ calls[Len(calls)].by = "_log_failed_stacks"

(***************************************************************************)
(* C1: when some polled status contains ROLLBACK, the call ends by         *)
(* returning false, also when the first such status is ROLLBACK_COMPLETE.  *)
(***************************************************************************)
C1_RollbackReturnsFalse ==
    (Ended /\ \E k \in PollIdx : In(ROLLBACK, calls[k].arg)) =>
        (raised = "none" /\ result = "false")

(***************************************************************************)
(* C2: from the first poll that sees a rollback status without COMPLETE,   *)
(* the failure flag stays set, the report is invoked exactly once, right   *)
(* after that poll, and a value returned is false.                         *)
(***************************************************************************)
C2_FlagSticksReportOnce ==
    /\ RollbackIdx # {} =>
          /\ stack_failure
          /\ ReportIdx = { MinOf(RollbackIdx) + 1 }
          /\ result # "true"
          /\ Returned => result = "false"
          /\ (Ended /\ ~Returned) =>
                (RaisedInReport \/ ~calls[Len(calls)].ok)
    /\ RollbackIdx = {} => (ReportIdx = {} /\ (ncalls > 0 => ~stack_failure))

\* CREATE_IN_PROGRESS, ROLLBACK_IN_PROGRESS, ROLLBACK_COMPLETE: false,
\* one report.
C2_Witness ==
    /\ Returned /\ result = "false"
    /\ Len(Polled) = 3
    /\ Polled[1].arg = CREATE_IN_PROGRESS
    /\ Polled[2].arg = ROLLBACK_IN_PROGRESS
    /\ Polled[3].arg = ROLLBACK_COMPLETE
    /\ Cardinality(ReportIdx) = 1

(***************************************************************************)
(* C3: a poll that sees ROLLBACK_FAILED is the last thing the loop does:   *)
(* no sleep and no fetch by the loop follows it.  When a rollback had been *)
(* flagged before, the call returns false on that poll; when it is the     *)
(* first rollback status, the report is invoked once and the call then     *)
(* returns false (or ends inside the report).                              *)
(***************************************************************************)
C3_RollbackFailedExits ==
    \A k \in PollIdx :
        In(ROLLBACK_FAILED, calls[k].arg) =>
            /\ \A j \in (k+1)..Len(calls) : ~IsLoopStep(calls[j])
            /\ pc \in {"idle", "report_describe", "report_events"}
            /\ result # "true"
            /\ Returned => result = "false"
            /\ (Ended /\ ~Returned) => RaisedInReport
            /\ IF \E j \in RollbackIdx : j < k
               THEN /\ Returned
                    /\ \A j \in (k+1)..Len(calls) : calls[j].by = "_wait_results"
                                                     /\ calls[j].op = "LOG.error"
                    /\ Cardinality(ReportIdx) = 1
               ELSE ReportIdx = {k + 1}

\* UPDATE_ROLLBACK_IN_PROGRESS then ROLLBACK_FAILED, and ROLLBACK_FAILED as
\* the first status polled with the report completed: both return false.
C3_Witness ==
    /\ Returned /\ result = "false"
    /\ Len(Polled) = 2
    /\ Polled[1].arg = UPDATE_ROLLBACK_IN_PROGRESS
    /\ Polled[2].arg = ROLLBACK_FAILED

C3_WitnessFirst ==
    /\ Returned /\ result = "false"
    /\ Len(Polled) = 1
    /\ Polled[1].arg = UPDATE_ROLLBACK_FAILED
    /\ \E k \in 1..Len(calls) : calls[k].op = "describe_stack_events"

(***************************************************************************)
(* C4: when no polled status contains ROLLBACK and the last one contains   *)
(* COMPLETE, the call returns true on that poll, and nothing of the        *)
(* failure report happened: no _log_failed_stacks, no describe_stack_events,*)
(* no record at error severity.                                            *)
(***************************************************************************)
C4_CleanCompleteReturnsTrue ==
    (/\ Polled # <<>>
     /\ \A k \in PollIdx : ~In(ROLLBACK, calls[k].arg)
     /\ In(COMPLETE, Polled[Len(Polled)].arg)) =>
        /\ Returned /\ result = "true"
        /\ IsPoll(calls[Len(calls)])
        /\ \A k \in 1..Len(calls) : ~IsReportOrError(calls[k])
        /\ \A k \in 1..(Len(Polled) - 1) : ~In(COMPLETE, Polled[k].arg)

\* CREATE_IN_PROGRESS, CREATE_FAILED, CREATE_COMPLETE
C4_Witness ==
    /\ Returned /\ result = "true"
    /\ Len(Polled) = 3
    /\ Polled[1].arg = CREATE_IN_PROGRESS
    /\ Polled[2].arg = CREATE_FAILED
    /\ Polled[3].arg = CREATE_COMPLETE

(***************************************************************************)
(* C8: an error inside _log_failed_stacks (a failing describe_stacks or    *)
(* describe_stack_events, a FAILED event without a reason) does not end    *)
(* the call: polling goes on.                                              *)
(***************************************************************************)
C8_ReportErrorDoesNotPropagate == ~RaisedInReport

(***************************************************************************)
(* C9: an error-free run calls create_bucket, publishes master.template,   *)
(* publishes each template of self.templates in order, calls create_stack  *)
(* and only then polls; publish_file is called once per template plus      *)
(* once, create_stack once, and every TemplateURL of the manifest names an *)
(* object that is in the bucket when create_stack is issued.               *)
(***************************************************************************)
ExpectedRunCalls ==
    << Call("run", "create_bucket", self.bucket, TRUE),
       Call("run", "publish_file",
            [key |-> "master.template", body |-> parent_template], TRUE) >>
    \o [ k \in 1..Len(self.templates) |->
           Call("run", "publish_file",
                [key |-> self.templates[k].name,
                 body |-> generate(self.templates[k])], TRUE) ]
    \o << Call("_build_stack", "create_stack",
               [StackName |-> self.stack_name,
                TemplateURL |-> Url(self.bucket_url, "master.template"),
                Capabilities |-> {"CAPABILITY_IAM"}], TRUE) >>

SameCall(c, e) == c.by = e.by /\ c.op = e.op /\ c.ok = e.ok /\ c.arg = e.arg

CountOp(op) == Cardinality({ k \in 1..Len(calls) : calls[k].op = op })

ManifestObjectsPublished ==
    \A r \in DOMAIN parent_template :
        \E key \in Keys :
            /\ parent_template[r].TemplateURL = Url(self.bucket_url, key)
            /\ s3[self.bucket].objs[key] # Absent

C9_RunCallOrder ==
    (/\ ncalls > 0
     /\ calls[1].op = "create_bucket"
     /\ \A k \in 1..Len(calls) : calls[k].ok) =>
        LET n == Len(ExpectedRunCalls) IN
        /\ \A k \in 1..Len(calls) :
              IF k <= n THEN SameCall(calls[k], ExpectedRunCalls[k])
              ELSE calls[k].by \in {"_wait_results", "_log_failed_stacks"}
        /\ Len(calls) > n => IsPoll(calls[n + 1])
        /\ pc = "create_stack" => ManifestObjectsPublished
        /\ Len(calls) >= n =>
              /\ CountOp("publish_file") = Len(self.templates) + 1
              /\ CountOp("create_stack") = 1
              /\ CountOp("create_bucket") = 1
              /\ ManifestObjectsPublished

\* An error-free run of two templates that has made its first poll.
C9_Witness ==
    /\ ncalls > 0 /\ calls[1].op = "create_bucket"
    /\ \A k \in 1..Len(calls) : calls[k].ok
    /\ Len(self.templates) = 2
    /\ Len(Polled) = 1

(***************************************************************************)
(* C10: the manifest that run publishes has one resource per template of   *)
(* self.templates, under the template's resource_name(), with TemplateURL  *)
(* = bucket_url + "/" + name, and with Parameters exactly when the         *)
(* template's test_params.dict() is not empty.                             *)
(***************************************************************************)
ManifestPublished ==
    /\ Len(calls) >= 2
    /\ calls[1].op = "create_bucket"
    /\ calls[2].op = "publish_file"

C10_ManifestEntries ==
    ManifestPublished =>
        LET m == calls[2].arg.body IN
        /\ calls[2].arg.key = "master.template"
        /\ DOMAIN m = { self.templates[k].rname : k \in 1..Len(self.templates) }
        /\ Cardinality(DOMAIN m) = Len(self.templates)
        /\ \A k \in 1..Len(self.templates) :
              LET templ == self.templates[k]
                  entry == m[templ.rname] IN
              /\ entry.TemplateURL = <<self.bucket_url, "/", templ.name>>
              /\ ("Parameters" \in DOMAIN entry) <=> (templ.params # {})
              /\ templ.params # {} => entry.Parameters = templ.params
              /\ DOMAIN entry \subseteq {"TemplateURL", "Parameters"}

\* A published manifest of one template with parameters and one without.
C10_Witness ==
    /\ ManifestPublished /\ calls[2].ok
    /\ Len(self.templates) = 2
    /\ \E k \in 1..2 : self.templates[k].params # {}
    /\ \E k \in 1..2 : self.templates[k].params = {}

(***************************************************************************)
(* Notions the claims about cleanup are stated with.                       *)
(***************************************************************************)
InCleanup == ncalls > 0 /\ calls # <<>> /\ calls[1].by = "cleanup"
AllOk == \A k \in 1..Len(calls) : calls[k].ok

NoRepeats(s) == \A i, j \in 1..Len(s) : i # j => s[i] # s[j]

\* The keys under which the run's bucket holds an object.
KeysHeld == { k \in Keys : s3[self.bucket].objs[k] # Absent }

(***************************************************************************)
(* C11: an error-free cleanup calls list_objects on the bucket, then       *)
(* delete_objects once with exactly the keys listed (an empty list when    *)
(* the bucket is empty), then delete_bucket, then delete_stack on the      *)
(* stack name, and returns: four calls, none after them.                   *)
(***************************************************************************)
ExpectedCleanupCalls ==
    << Call("cleanup", "list_objects", self.bucket, TRUE),
       Call("cleanup", "delete_objects",
            [Bucket |-> self.bucket, Objects |-> bucket_objects], TRUE),
       Call("cleanup", "delete_bucket", self.bucket, TRUE),
       Call("cleanup", "delete_stack", self.stack_name, TRUE) >>

C11_CleanupCallOrder ==
    (InCleanup /\ AllOk) =>
        /\ Len(calls) <= 4
        /\ \A k \in 1..Len(calls) : SameCall(calls[k], ExpectedCleanupCalls[k])
        /\ pc = "delete_objects" =>
              (Range(bucket_objects) = KeysHeld /\ NoRepeats(bucket_objects))
        /\ pc = "delete_bucket" => KeysHeld = {}
        /\ pc = "idle" <=> Len(calls) = 4
        /\ pc = "idle" => (result = "none" /\ raised = "none")
        /\ pc \in {"idle", "delete_objects", "delete_bucket", "delete_stack"}

\* A finished error-free cleanup of a bucket that held no object.
C11_Witness ==
    /\ InCleanup /\ AllOk /\ pc = "idle" /\ Len(calls) = 4
    /\ calls[2].arg.Objects = <<>>

\* A finished error-free cleanup of a bucket that held two objects.
C11_WitnessTwoKeys ==
    /\ InCleanup /\ AllOk /\ pc = "idle" /\ Len(calls) = 4
    /\ Len(calls[2].arg.Objects) = 2

(***************************************************************************)
(* C12: when create_bucket, a publish_file or create_stack fails during    *)
(* run, the error ends run at once: the failed call is the last call of    *)
(* the run (no retry, no later step) and run returns no boolean.           *)
(***************************************************************************)
SetupOps == {"create_bucket", "publish_file", "create_stack"}

SetupFailedAt(k) ==
    /\ k \in 1..Len(calls)
    /\ calls[k].op \in SetupOps
    /\ ~calls[k].ok

C12_SetupErrorPropagates ==
    InRun =>
        \A k \in 1..Len(calls) :
            SetupFailedAt(k) =>
                /\ k = Len(calls)
                /\ \A j \in 1..(k - 1) : calls[j].ok
                /\ pc = "idle"
                /\ raised = calls[k].op
                /\ result = "none"

\* create_stack failed after the manifest and two templates were published.
C12_Witness ==
    /\ InRun /\ Len(calls) = 5
    /\ SetupFailedAt(5) /\ calls[5].op = "create_stack"
    /\ pc = "idle" /\ result = "none"

\* The second publish_file failed: the manifest is stored, the stack is not
\* created.
C12_WitnessPublish ==
    /\ InRun /\ Len(calls) = 3
    /\ SetupFailedAt(3) /\ calls[3].op = "publish_file"
    /\ pc = "idle" /\ stacks = {}

(***************************************************************************)
(* Two Tests constructed in one process (lines 37-44, twice), used one     *)
(* after the other: every method of Next on the first, then on the second. *)
(***************************************************************************)
\* time.time(): seconds since the epoch and the milliseconds within the
\* second
ClockTimes == { <<1466000000, 0>>, <<1466000000, 600>>, <<1466000001, 200>> }

PairLists == { <<TemplA>>, <<TemplA, TemplB>> }

\* line 39 rounding to the nearest second
int_rounded(clock) == IF clock[2] >= 500 THEN clock[1] + 1 ELSE clock[1]

\* line 39: int(x) drops the fraction
int(clock) == clock[1]

\* lines 37-44: Test(templates), constructed when the clock reads `clock`
Test(templates, clock) ==
    LET timestamp == int(clock)
        bucket == BucketName(timestamp) IN
    [templates |-> templates,
     bucket |-> bucket,
     stack_name |-> StackName(timestamp),
     bucket_url |-> BucketUrl(bucket)]

InitPair ==
    /\ Constructed
    /\ \E ta, tb \in PairLists, ca, cb \in ClockTimes :
          /\ self = Test(ta, ca)
          /\ pair = [other |-> Test(tb, cb), self_at |-> ca, other_at |-> cb,
                     swapped_at |-> 0]
    /\ s3 = [b \in Buckets |-> [exists |-> FALSE, objs |-> NoObjects]]
    /\ stacks = {}
    /\ pc = "idle"
    /\ idx = 1
    /\ bucket_objects = <<>>
    /\ stack_failure = FALSE
    /\ stack_status = <<>>
    /\ result = "none"
    /\ raised = "none"
    /\ ncalls = 0
    /\ calls = <<>>

\* The caller turns from the first Test to the second: from now on the
\* methods are called on the second.
SwitchTest ==
    /\ pc = "idle" /\ pair.swapped_at = 0
    /\ self' = pair.other
    /\ pair' = [other |-> self, self_at |-> pair.other_at,
                other_at |-> pair.self_at, swapped_at |-> ncalls + 1]
    /\ UNCHANGED <<s3, stacks, pc, idx, bucket_objects, stack_failure,
                   stack_status, result, raised, ncalls, calls>>
    /\ UNCHANGED fvars

NextPair ==
    \/ Next
    \/ SwitchTest

SpecPair == InitPair /\ [][NextPair]_vars

(***************************************************************************)
(* C13: two Tests constructed in different whole seconds have different    *)
(* bucket names and different stack names; two Tests constructed within    *)
(* the same second have the same bucket name and the same stack name, and  *)
(* then every bucket and stack their runs and cleanups create, fill or     *)
(* delete is that one bucket and that one stack.                           *)
(***************************************************************************)
SameSecond == pair.self_at[1] = pair.other_at[1]

\* The call in progress is the second Test's; the call before it was the
\* first Test's.
SecondAfterFirst == pair.swapped_at = 2 /\ ncalls = 2

C13_NamesFromTimestamp ==
    /\ ~SameSecond =>
          /\ self.bucket # pair.other.bucket
          /\ self.stack_name # pair.other.stack_name
    /\ SameSecond =>
          /\ self.bucket = pair.other.bucket
          /\ self.stack_name = pair.other.stack_name
          /\ \A b \in Buckets : s3[b].exists => b = pair.other.bucket
          /\ \A st \in stacks : st.StackName = pair.other.stack_name
          /\ (SecondAfterFirst /\ InCleanup /\ AllOk /\ Len(calls) = 4) =>
                /\ ~s3[pair.other.bucket].exists
                /\ stacks = {}

\* Constructed 600 ms apart within one second: the cleanup of the second
\* Test deleted the objects, the bucket and the stack of the first Test's run.
C13_Witness ==
    /\ SameSecond /\ pair.self_at # pair.other_at
    /\ SecondAfterFirst /\ InCleanup /\ AllOk /\ Len(calls) = 4
    /\ Len(calls[2].arg.Objects) >= 2

\* Constructed in different seconds: the first Test's bucket and stack are
\* there, the second Test's cleanup finds no bucket of its own.
C13_WitnessApart ==
    /\ ~SameSecond
    /\ SecondAfterFirst /\ InCleanup /\ ~calls[1].ok
    /\ s3[pair.other.bucket].exists /\ stacks # {}

(***************************************************************************)
(* C14: the bucket name, the stack name and the base URL are               *)
(* "jetstream-test-<t>", "JetstreamTest<t>" and                            *)
(* "https://s3.amazonaws.com/<bucket>" for one timestamp t; no step of     *)
(* run, of the wait or of cleanup changes them, however many calls are     *)
(* made and in whatever order; so every bucket and stack that exists was   *)
(* created under these names and every call of cleanup targets them.       *)
(***************************************************************************)
NamesOfOneTimestamp ==
    \E t \in Timestamps :
        /\ self.bucket = <<"jetstream-test-", t>>
        /\ self.stack_name = <<"JetstreamTest", t>>
        /\ self.bucket_url = <<"https://s3.amazonaws.com/", <<"jetstream-test-", t>> >>

TargetsOwnNames(c) ==
    /\ c.op \in {"create_bucket", "list_objects", "delete_bucket"} =>
          c.arg = self.bucket
    /\ c.op = "delete_objects" => c.arg.Bucket = self.bucket
    /\ c.op = "create_stack" =>
          /\ c.arg.StackName = self.stack_name
          /\ c.arg.TemplateURL = <<self.bucket_url, "/", "master.template">>
    /\ c.op = "delete_stack" => c.arg = self.stack_name

CreatedUnderOwnNames ==
    /\ \A b \in Buckets : s3[b].exists => b = self.bucket
    /\ \A st \in stacks : st.StackName = self.stack_name

C14_NamesFixedAtConstruction ==
    /\ [](/\ NamesOfOneTimestamp
          /\ CreatedUnderOwnNames
          /\ \A k \in 1..Len(calls) : TargetsOwnNames(calls[k]))
    /\ [][self' = self]_vars

\* A cleanup that follows a run: it found the run's objects in the bucket
\* and deleted the run's stack.
C14_Witness ==
    /\ ncalls = 2 /\ InCleanup /\ AllOk /\ Len(calls) = 4
    /\ calls[2].arg.Objects # <<>>
    /\ calls[4].arg = self.stack_name
    /\ stacks = {}

(***************************************************************************)
(* C15: the wait returns only on a poll whose status contains COMPLETE or  *)
(* ROLLBACK_FAILED, and on the first such poll; after a poll of any other  *)
(* status (CREATE_FAILED as well) it sleeps once and polls again: the      *)
(* fetches and sleeps of the loop alternate, starting with a fetch, and    *)
(* no sleep follows the last poll.                                         *)
(***************************************************************************)
Terminal(status) ==
    In(<<"COMPLETE">>, status) \/ In(<<"ROLLBACK", "FAILED">>, status)

LoopSteps == SelectSeq(calls, IsLoopStep)

C15_WaitTermination ==
    /\ \A n \in 1..Len(LoopSteps) :
          /\ LoopSteps[n].op = (IF n % 2 = 1 THEN "describe_stacks" ELSE "time.sleep")
          /\ LoopSteps[n].op = "time.sleep" => LoopSteps[n].arg = 10
    /\ \A k \in PollIdx :
          IF Terminal(calls[k].arg)
          THEN /\ \A j \in (k+1)..Len(calls) : ~IsLoopStep(calls[j])
               /\ pc \in {"idle", "report_describe", "report_events"}
          ELSE \/ \E j \in (k+1)..Len(calls) :
                     /\ calls[j].op = "time.sleep"
                     /\ \A i \in (k+1)..(j-1) : ~IsLoopStep(calls[i])
               \/ pc \in {"sleep", "report_describe", "report_events"}
               \/ RaisedInReport
    /\ (Returned /\ ~InCleanup) =>
          /\ PollIdx # {}
          /\ LET last == CHOOSE k \in PollIdx : \A j \in PollIdx : j <= k IN
             /\ Terminal(calls[last].arg)
             /\ \A j \in PollIdx : j < last => ~Terminal(calls[j].arg)
    /\ pc = "sleep" =>
          /\ LoopSteps # <<>>
          /\ IsPoll(LoopSteps[Len(LoopSteps)])
          /\ ~Terminal(LoopSteps[Len(LoopSteps)].arg)
    /\ (LoopSteps # <<>> /\ Len(LoopSteps) % 2 = 0) => pc = "poll"

\* CREATE_FAILED polled twice, a sleep after each, then CREATE_COMPLETE.
C15_Witness ==
    /\ ~InRun /\ ~InCleanup /\ Returned
    /\ Len(Polled) = 3
    /\ Polled[1].arg = CREATE_FAILED /\ Polled[2].arg = CREATE_FAILED
    /\ Polled[3].arg = CREATE_COMPLETE
    /\ CountOp("time.sleep") = 2

\* ROLLBACK_FAILED met as the first status: the report, then the return,
\* without a sleep.
C15_WitnessRollbackFailed ==
    /\ ~InRun /\ ~InCleanup /\ Returned
    /\ Len(Polled) = 1 /\ Polled[1].arg = UPDATE_ROLLBACK_FAILED
    /\ CountOp("time.sleep") = 0

(***************************************************************************)
(* C16: the flattening returns for every dependency graph without a cycle  *)
(* among the templates the roots lead to; with such a cycle it never       *)
(* returns: the recursion deepens up to any bound on its depth, also when  *)
(* the names of all templates on the cycle are already in a dict, since    *)
(* line 171 guards the insertion only and line 173 recurses regardless.    *)
(***************************************************************************)
\* Templates the roots lead to that are among their own dependencies,
\* direct or not.
OnCycle == { o \in ReachableObjs : o \in ReachFrom(AllDeps(o)) }

CycleReachable == OnCycle # {}

InsertedByName(o) == \E k \in 1..Len(frames) : frames[k].acc[tname[o]] # None

C16_FlattenTermination ==
    /\ [](/\ CycleReachable => fpc # "done"
          /\ ~CycleReachable => fpc # "overflow"
          /\ fpc = "overflow" => Len(frames) = MaxDepth)
    /\ (fpc = "running") ~>
          (fpc = IF CycleReachable THEN "overflow" ELSE "done")

\* The recursion goes on at full depth although every template on the cycle
\* has been inserted by name.
C16_Witness ==
    /\ fpc = "overflow"
    /\ Cardinality(OnCycle) >= 2
    /\ \A o \in OnCycle : InsertedByName(o)

\* Two instances of one name, none among its own dependencies: the
\* flattening returns.
C16_WitnessAcyclic ==
    /\ fpc = "done" /\ ~CycleReachable /\ ~AcyclicByName
    /\ \E k \in 1..Len(events) : events[k].depth = 3

(***************************************************************************)
(* C17: when list_objects, delete_objects, delete_bucket or delete_stack   *)
(* fails during cleanup, the error ends cleanup at once: the failed call   *)
(* is the last call (no retry, no later step), so after a failed           *)
(* list_objects, delete_objects or delete_bucket no delete_stack is        *)
(* issued and the stacks stay as they were; what the steps before the      *)
(* failure deleted stays deleted.                                          *)
(***************************************************************************)
CleanupOps == <<"list_objects", "delete_objects", "delete_bucket", "delete_stack">>

CleanupFailedAt(k) == InCleanup /\ k \in 1..Len(calls) /\ ~calls[k].ok

\* The step just taken is a call of cleanup that failed.
CleanupStepFailed ==
    /\ calls' # calls /\ calls' # <<>>
    /\ calls'[1].by = "cleanup"
    /\ ~calls'[Len(calls')].ok

\* The step just taken is a call of cleanup other than delete_stack.
CleanupStepBeforeDeleteStack ==
    /\ calls' # calls /\ calls' # <<>>
    /\ calls'[1].by = "cleanup"
    /\ calls'[Len(calls')].op # "delete_stack"

C17_CleanupErrorPropagates ==
    /\ [](\A k \in 1..Len(calls) :
            CleanupFailedAt(k) =>
                /\ k = Len(calls)
                /\ \A j \in 1..k : calls[j].op = CleanupOps[j]
                /\ \A j \in 1..(k - 1) : calls[j].ok
                /\ pc = "idle"
                /\ raised = calls[k].op
                /\ result = "none"
                /\ k >= 3 => \A key \in Range(bucket_objects) :
                                s3[self.bucket].objs[key] = Absent
                /\ k = 3 => s3[self.bucket].exists
                /\ k = 4 => ~s3[self.bucket].exists)
    /\ [][/\ CleanupStepFailed => (s3' = s3 /\ stacks' = stacks)
          /\ CleanupStepBeforeDeleteStack => stacks' = stacks]_vars

\* delete_bucket failed: the objects of the run are deleted, the bucket and
\* the stack are still there.
C17_Witness ==
    /\ CleanupFailedAt(3) /\ pc = "idle" /\ raised = "delete_bucket"
    /\ Len(calls[2].arg.Objects) >= 2
    /\ stacks # {}

\* delete_stack failed: the bucket is gone, the stack is still there.
C17_WitnessDeleteStack ==
    /\ CleanupFailedAt(4) /\ pc = "idle" /\ raised = "delete_stack"
    /\ stacks # {}

(***************************************************************************)
(* C18: prepare_test runs once per visit, not once per name: when the      *)
(* flattening of an acyclic graph has returned, a template that was        *)
(* reached k times, as a root or as an item of a dependency list that was  *)
(* traversed, has had prepare_test called k times and its dependencies     *)
(* read k times, and is in the result under at most one name.              *)
(***************************************************************************)
Occ(s, o) == Cardinality({ k \in 1..Len(s) : s[k] = o })

RECURSIVE SumOcc(_, _)
SumOcc(k, o) ==
    IF k = 0 THEN 0
    ELSE SumOcc(k - 1, o)
         + (IF events[k].op = "dependencies" THEN Occ(events[k].seen, o) ELSE 0)

\* Times o was reached: as a root, and in the dependency lists traversed.
Reached(o) == Occ(roots, o) + SumOcc(Len(events), o)

Prepared(o) ==
    Cardinality({ k \in 1..Len(events) :
                    events[k].op = "prepare_test" /\ events[k].obj = o })

Traversed(o) ==
    Cardinality({ k \in 1..Len(events) :
                    events[k].op = "dependencies" /\ events[k].obj = o })

HookFree == \A o \in Objs : hookAdds[o] = <<>>

\* Number of paths from the roots to o, in a graph without cycle and hook.
RECURSIVE Paths(_)
Paths(o) ==
    LET parents == { p \in ReachableObjs : Occ(deps[p], o) > 0 }
        sum[S \in SUBSET parents] ==
            IF S = {} THEN 0
            ELSE LET p == CHOOSE x \in S : TRUE
                 IN Paths(p) * Occ(deps[p], o) + sum[S \ {p}]
    IN Occ(roots, o) + sum[parents]

C18_PrepareOncePerVisit ==
    fpc = "done" =>
        \A o \in Objs :
            /\ Prepared(o) = Reached(o)
            /\ Traversed(o) = Reached(o)
            /\ HookFree => Prepared(o) = Paths(o)
            /\ Cardinality({ n \in Names : flattened[n] = o }) <= 1

\* A template that is a root and a dependency of the other root: prepared
\* twice, its dependency prepared twice as well.
C18_Witness ==
    /\ fpc = "done" /\ HookFree
    /\ \E o \in Objs, d \in Objs :
          /\ o # d /\ Occ(roots, o) = 1 /\ deps[o] = <<d>>
          /\ Prepared(o) = 2 /\ Traversed(o) = 2
          /\ Prepared(d) = 2
          /\ flattened[tname[o]] = o

(***************************************************************************)
(* C19: when create_stack is submitted, the object under the key           *)
(* "master.template" in the run's bucket is the generated master manifest, *)
(* whatever the flattened templates are, one named "master.template"       *)
(* included.                                                               *)
(***************************************************************************)
C19_ManifestUnderMasterKey ==
    pc = "create_stack" =>
        s3[self.bucket].objs["master.template"] = Stored(parent_template)

\* The same for lists of templates none of which bears the manifest's key.
C19_ManifestUnderMasterKeyOtherNames ==
    (pc = "create_stack"
       /\ \A k \in 1..Len(self.templates) : self.templates[k].name # "master.template")
    => s3[self.bucket].objs["master.template"] = Stored(parent_template)

(***************************************************************************)
(* C20: the stack status recorded in the failure report equals the status  *)
(* the poll loop observed when it flagged the failure, also when the       *)
(* remote status changes between the poll and the report's own fetch.      *)
(***************************************************************************)
\* The records of the report that carry the stack's name, status and reason.
StackReportIdx ==
    { k \in 1..Len(calls) :
        /\ calls[k].by = "_log_failed_stacks" /\ calls[k].op = "LOG.error"
        /\ "StackStatus" \in DOMAIN calls[k].arg }

\* The status of the last poll before record k: the one that flagged.
FlaggedStatus(k) ==
    LET before == { j \in PollIdx : j < k }
    IN calls[CHOOSE j \in before : \A i \in before : i <= j].arg

C20_ReportStatusIsPolledStatus ==
    \A k \in StackReportIdx : calls[k].arg.StackStatus = FlaggedStatus(k)

(***************************************************************************)
(* C20, amended: the stack status recorded in the failure report is the    *)
(* status returned by the report's own describe_stacks, issued after the   *)
(* poll that flagged the failure; the loop keeps the polled status for its *)
(* own tests.                                                              *)
(***************************************************************************)
C20_ReportStatusIsRefetched ==
    \A k \in StackReportIdx :
        /\ k >= 4
        /\ IsPoll(calls[k-3]) /\ calls[k-3].arg = FlaggedStatus(k)
        /\ In(ROLLBACK, FlaggedStatus(k))
        /\ calls[k-2].op = "_log_failed_stacks"
        /\ calls[k-1].by = "_log_failed_stacks"
        /\ calls[k-1].op = "describe_stacks" /\ calls[k-1].ok
        /\ calls[k].arg.StackStatus = calls[k-1].arg
        /\ calls[k].arg.StackName = self.stack_name
        /\ pc = "report_events" => stack_status = FlaggedStatus(k)

\* Flagged on ROLLBACK_IN_PROGRESS; by the time of the report's fetch the
\* rollback is complete, and that is the status recorded.
C20_Witness ==
    \E k \in StackReportIdx :
        /\ FlaggedStatus(k) = ROLLBACK_IN_PROGRESS
        /\ calls[k].arg.StackStatus = ROLLBACK_COMPLETE

====
